---- MODULE Spec2Model ----
(***************************************************************************)
(* Model of the TRON weather server: the provider registry                 *)
(* (server/providers/base.py), the sinoptik provider                       *)
(* (server/providers/sinoptik.py) and the daily cache job                  *)
(* (server/update_cache.py).                                               *)
(*                                                                         *)
(* Python values are modelled as follows: None is the record None, a str   *)
(* argument s is PyStr(s), a dict is a record, a list is a sequence, an    *)
(* OrderedDict is a sequence of <<key, value>> pairs in insertion order,   *)
(* and a str built by str()/+ is a sequence of one-character strings.      *)
(***************************************************************************)
EXTENDS Integers, Sequences, FiniteSets, TLC

(***************************************************************************)
(* Bounds of the model                                                     *)
(***************************************************************************)
\* longest extracted value list fed to the forecast grouping
MaxLen == 25
\* most provider objects ever constructed (registered or not)
MaxObjects == 4
\* last calendar day the wall clock reaches
MaxDay == 2
\* most runs of the cache job
MaxRuns == 2

(***************************************************************************)
(* Program constants                                                       *)
(***************************************************************************)
\* range(24) and % 24 in download_data / update_cache
HoursPerDay == 24

VARIABLES
    \* ---- forecast grouping (download_data, "Group data by hour") ----
    fpc,               \* "input": lists extracted; "done": data returned
    hour,              \* int(now.strftime("%H"))
    temp,              \* doc.xpath(... max-temp ...)
    rain_probability,  \* doc.xpath(... probability ...)
    rain_intensity,    \* doc.xpath(... intensity ...)
    data               \* the OrderedDict returned by download_data

fvars == <<fpc, hour, temp, rain_probability, rain_intensity, data>>

VARIABLES
    \* ---- provider registry (ProviderMetaClass, BaseWeatherProvider) ----
    hasRegistry,       \* hasattr(cls, 'provider_classes')
    provider_classes,  \* BaseWeatherProvider.provider_classes
    providers,         \* BaseWeatherProvider.providers: references into heap
    heap,              \* every provider object constructed so far
    defOrder,          \* history: the classes in the order they were defined
    call,              \* the last call, if it was a find_provider call
    op                 \* the last call, if it was a call of a provider method

rvars == <<hasRegistry, provider_classes, providers, heap, defOrder, call, op>>

VARIABLES
    \* ---- daily cache job (update_cache.py) ----
    config,            \* config.locations_to_cache
    today,             \* the calendar day of the wall clock
    pc,                \* where the job is: "idle" when no run is in progress
    idx,               \* position of the for loop in config (1-based)
    now,               \* the day read by datetime.datetime.now() this iteration
    resolved_id,       \* location_id: the id resolved for this iteration's location
    files,             \* files[name][day]: "absent", "partial" or "complete"
    dirs,              \* the location directories that exist under cache_dir
    writes,            \* history: writes[name][day], times the file was opened 'w+'
    runs               \* history: one record per run of the job, oldest first

cvars == <<config, today, pc, idx, now, resolved_id, files, dirs, writes, runs>>

vars == <<fvars, rvars, cvars>>

(***************************************************************************)
(* Python helpers                                                          *)
(***************************************************************************)
None == [t |-> "None"]

PyStr(s) == [t |-> "str", v |-> s]

PyFalse == [t |-> "bool", v |-> FALSE]

\* truth value of an argument that is None or a str
Truthy(a) == a # None /\ a # PyStr("")

\* truth value of a result that is None, False or a dict with entries
IsTrue(v) == v # None /\ v # PyFalse

\* a reference to the object at heap[n]
Ref(n) == [t |-> "obj", oid |-> n]

Min(a, b) == IF a <= b THEN a ELSE b

Digit(d) == <<"0", "1", "2", "3", "4", "5", "6", "7", "8", "9">>[d + 1]

\* str(n) for a non-negative int below 100: no leading zero
Str(n) == IF n < 10 THEN <<Digit(n)>> ELSE <<Digit(n \div 10), Digit(n % 10)>>

Max(a, b) == IF a >= b THEN a ELSE b

\* a zip that pads the shorter lists with None instead of stopping
Zip3Longest(a, b, c) ==
    [i \in 1..Max(Len(a), Max(Len(b), Len(c))) |->
        << IF i <= Len(a) THEN a[i] ELSE None,
           IF i <= Len(b) THEN b[i] ELSE None,
           IF i <= Len(c) THEN c[i] ELSE None >>]

\* zip(a, b, c): stops at the shortest argument
Zip3(a, b, c) ==
    [i \in 1..Min(Len(a), Min(Len(b), Len(c))) |-> <<a[i], b[i], c[i]>>]

\* zip(a, b): stops at the shorter argument
Zip2(a, b) == [i \in 1..Min(Len(a), Len(b)) |-> <<a[i], b[i]>>]

\* d[k] = v on an OrderedDict: a present key keeps its position
DictSet(d, k, v) ==
    IF \E i \in 1..Len(d) : d[i][1] = k
    THEN [i \in 1..Len(d) |-> IF d[i][1] = k THEN <<k, v>> ELSE d[i]]
    ELSE Append(d, <<k, v>>)

RECURSIVE DictFrom(_, _)
\* the dict built from the first n pairs
DictFrom(pairs, n) ==
    IF n = 0 THEN <<>>
    ELSE DictSet(DictFrom(pairs, n - 1), pairs[n][1], pairs[n][2])

\* OrderedDict(pairs)
OrderedDict(pairs) == DictFrom(pairs, Len(pairs))

\* an extracted list: n values, each tagged with its list and position
Extracted(tag, n) == [i \in 1..n |-> <<tag, i>>]

(***************************************************************************)
(* Initial states                                                          *)
(***************************************************************************)
NoCall == [made |-> FALSE]

NoOp == [name |-> "none"]

\* the location names config.locations_to_cache may hold: the two
\* configured ones and one that is in no provider's table
ConfigNames == {"Veliko Tarnovo", "Sofia", "Atlantis"}

\* config.locations_to_cache as shipped, and variations of it
Configs ==
    { <<"Veliko Tarnovo", "Sofia">>,
      <<"Sofia", "Atlantis">>,
      <<"Sofia", "Sofia">> }

Days == 1..MaxDay

\* extracted value lists of every length at an hour of the day; nothing
\* imported, no job
InitForecast ==
    /\ fpc = "input"
    /\ hour \in 0..(HoursPerDay - 1)
    /\ \E n \in 0..MaxLen : temp = Extracted("temp", n)
    /\ \E n \in 0..MaxLen : rain_probability = Extracted("prob", n)
    /\ \E n \in 0..MaxLen : rain_intensity = Extracted("mm", n)
    /\ data = <<>>
    /\ hasRegistry = FALSE
    /\ provider_classes = <<>>
    /\ providers = <<>>
    /\ heap = <<>>
    /\ defOrder = <<>>
    /\ call = NoCall
    /\ op = NoOp
    /\ config = <<"Veliko Tarnovo", "Sofia">>
    /\ today = 1
    /\ pc = "idle"
    /\ idx = 1
    /\ now = 1
    /\ resolved_id = None
    /\ files = [n \in ConfigNames |-> [d \in Days |-> "absent"]]
    /\ dirs = {}
    /\ writes = [n \in ConfigNames |-> [d \in Days |-> 0]]
    /\ runs = <<>>

\* before anything is imported, under one of the configurations
InitCache ==
    /\ fpc = "input"
    /\ hour = 0
    /\ temp = <<>>
    /\ rain_probability = <<>>
    /\ rain_intensity = <<>>
    /\ data = <<>>
    /\ hasRegistry = FALSE
    /\ provider_classes = <<>>
    /\ providers = <<>>
    /\ heap = <<>>
    /\ defOrder = <<>>
    /\ call = NoCall
    /\ op = NoOp
    /\ config \in Configs
    /\ today = 1
    /\ pc = "idle"
    /\ idx = 1
    /\ now = 1
    /\ resolved_id = None
    /\ files = [n \in ConfigNames |-> [d \in Days |-> "absent"]]
    /\ dirs = {}
    /\ writes = [n \in ConfigNames |-> [d \in Days |-> 0]]
    /\ runs = <<>>

\* before base.py is imported; no job
InitRegistry ==
    /\ fpc = "input"
    /\ hour = 0
    /\ temp = <<>>
    /\ rain_probability = <<>>
    /\ rain_intensity = <<>>
    /\ data = <<>>
    /\ hasRegistry = FALSE
    /\ provider_classes = <<>>
    /\ providers = <<>>
    /\ heap = <<>>
    /\ defOrder = <<>>
    /\ call = NoCall
    /\ op = NoOp
    /\ config = <<"Veliko Tarnovo", "Sofia">>
    /\ today = 1
    /\ pc = "idle"
    /\ idx = 1
    /\ now = 1
    /\ resolved_id = None
    /\ files = [n \in ConfigNames |-> [d \in Days |-> "absent"]]
    /\ dirs = {}
    /\ writes = [n \in ConfigNames |-> [d \in Days |-> 0]]
    /\ runs = <<>>

(***************************************************************************)
(* Forecast grouping: sinoptik.py 88-94, update_cache.py 59-63             *)
(***************************************************************************)
\* the hour labels without the wrap at midnight
HoursNoWrap(h) ==
    [i \in 1..HoursPerDay |-> Str(h + (i - 1)) \o <<":", "0", "0">>]

\* hours = [str((hour + i) % 24) + ':00' for i in range(24)]
Hours(h) ==
    [i \in 1..HoursPerDay |-> Str((h + (i - 1)) % HoursPerDay) \o <<":", "0", "0">>]

\* rain = zip(...); data = OrderedDict(zip(hours, rain))
GroupByHour(h, t, p, q) == OrderedDict(Zip2(Hours(h), Zip3(t, p, q)))

\* download_data from "Group data by hour" to "return data"
DownloadData ==
    /\ fpc = "input"
    /\ data' = GroupByHour(hour, temp, rain_probability, rain_intensity)
    /\ fpc' = "done"
    /\ UNCHANGED <<hour, temp, rain_probability, rain_intensity>>
    /\ UNCHANGED <<rvars, cvars>>

ForecastNext == DownloadData

SpecForecast == InitForecast /\ [][ForecastNext]_vars

(***************************************************************************)
(* Properties of the forecast grouping                                     *)
(***************************************************************************)
DigitVal(c) == CHOOSE d \in 0..9 : Digit(d) = c

\* k is one or two decimal digits followed by ":00"
IsLabel(k) ==
    /\ Len(k) \in {4, 5}
    /\ SubSeq(k, Len(k) - 2, Len(k)) = <<":", "0", "0">>
    /\ \A j \in 1..(Len(k) - 3) : \E d \in 0..9 : Digit(d) = k[j]

\* the hour a label reads as
LabelHour(k) ==
    IF Len(k) = 4 THEN DigitVal(k[1])
    ELSE 10 * DigitVal(k[1]) + DigitVal(k[2])

\* the i-th entry of the forecast is the i-th hour of the window starting
\* at the current hour, mapped to the i-th value of each list
EntryMatches(i) ==
    /\ IsLabel(data[i][1])
    /\ LabelHour(data[i][1]) = (hour + (i - 1)) % HoursPerDay
    /\ data[i][2] = <<temp[i], rain_probability[i], rain_intensity[i]>>

DistinctKeys ==
    \A i, j \in 1..Len(data) : data[i][1] = data[j][1] => i = j

FullLists ==
    /\ Len(temp) = HoursPerDay
    /\ Len(rain_probability) = HoursPerDay
    /\ Len(rain_intensity) = HoursPerDay

\* C9: for every current hour H and three value lists of length 24 the
\* forecast has exactly 24 distinct keys, in insertion order the labels of
\* hours H, H+1, ..., H+23 modulo 24, the i-th mapped to the i-th triple.
C9_FullWindow ==
    (fpc = "done" /\ FullLists) =>
        /\ Len(data) = HoursPerDay
        /\ DistinctKeys
        /\ \A i \in 1..HoursPerDay : EntryMatches(i)

\* a full forecast produced in the evening, so that the window wraps
C9_Witness ==
    fpc = "done" /\ FullLists /\ hour = 17 /\ Len(data) = HoursPerDay

ShortestLen ==
    Min(HoursPerDay,
        Min(Len(temp), Min(Len(rain_probability), Len(rain_intensity))))

\* C10: for lists of any lengths download produces exactly K entries, K the
\* minimum of 24 and the three lengths, under the first K hour labels of
\* the window, each entry holding one value of each list at its position.
C10_ShortLists ==
    fpc = "done" =>
        /\ Len(data) = ShortestLen
        /\ \A i \in 1..ShortestLen : Len(data[i][2]) = 3 /\ EntryMatches(i)

\* misaligned lists, one of them longer than the window
C10_Witness ==
    /\ fpc = "done"
    /\ Len(temp) = 5 /\ Len(rain_probability) = 3 /\ Len(rain_intensity) = 25
    /\ Len(data) = 3

\* C11: every key of a produced forecast is an hour label "HH:00": two
\* digits 00..23 followed by ":00", also for hours below 10.
C11_TwoDigitLabels ==
    fpc = "done" =>
        \A i \in 1..Len(data) :
            /\ IsLabel(data[i][1])
            /\ Len(data[i][1]) = 5
            /\ LabelHour(data[i][1]) \in 0..(HoursPerDay - 1)


(***************************************************************************)
(* Provider classes                                                        *)
(***************************************************************************)
BaseClass == "BaseWeatherProvider"

SinoptikClass == "SinoptikProvider"

\* further provider classes a deployment may define next to sinoptik
OtherClasses == {"ProviderB", "ProviderC"}

\* SinoptikProvider.id
SinoptikId == "sinoptik"

\* populate_default_locations: the two entries named Byala, the two
\* configured locations, in the order of the table
DefaultLocations ==
    << [name |-> "Byala", id |-> "byala-bulgaria-100732720"],
       [name |-> "Byala", id |-> "byala-bulgaria-100732721"],
       [name |-> "Veliko Tarnovo", id |-> "veliko-turnovo-bulgaria-100725993"],
       [name |-> "Sofia", id |-> "sofia-bulgaria-100727011"] >>

\* the id attribute a further provider class may declare
OtherIds == {"sinoptik", "other", "third"}

\* the location table a further provider class may populate
OtherTables ==
    { << [name |-> "Sofia", id |-> "b-sofia"] >>,
      << [name |-> "Plovdiv", id |-> "b-plovdiv"],
         [name |-> "Byala", id |-> "b-byala"] >> }

\* what the location directory of the site may list when it is scraped:
\* nothing, or the known places in another order
Catalogs ==
    { <<>>,
      << [name |-> "Sofia", id |-> "sofia-bulgaria-100727011"],
         [name |-> "Byala", id |-> "byala-bulgaria-100732721"],
         [name |-> "Byala", id |-> "byala-bulgaria-100732720"] >> }

\* location ids the provider methods are called with
LocationIdArgs ==
    {None, PyStr(""), PyStr("sofia-bulgaria-100727011"),
     PyStr("byala-bulgaria-100732721"), PyStr("no-such-id")}

\* arguments find_provider is called with
ProviderIdArgs ==
    {None, PyStr(""), PyStr("sinoptik"), PyStr("other"), PyStr("third"),
     PyStr("ThereIsNoSuchProvider")}

LocationNameArgs ==
    {None, PyStr(""), PyStr("Sofia"), PyStr("Byala"), PyStr("Plovdiv"),
     PyStr("There is no such place")}

(***************************************************************************)
(* SinoptikProvider: sinoptik.py 33-56                                     *)
(***************************************************************************)
\* next((c for c in self.locations if c['id'] == name), None)
get_location_by_id(self, name) ==
    IF \E i \in 1..Len(self.locations) : PyStr(self.locations[i].id) = name
    THEN self.locations[
            CHOOSE i \in 1..Len(self.locations) :
                /\ PyStr(self.locations[i].id) = name
                /\ \A j \in 1..(i - 1) : PyStr(self.locations[j].id) # name]
    ELSE None

\* a lookup by name that keeps the last entry of that name
get_location_by_name_last(self, name) ==
    IF \E i \in 1..Len(self.locations) : PyStr(self.locations[i].name) = name
    THEN self.locations[
            CHOOSE i \in 1..Len(self.locations) :
                /\ PyStr(self.locations[i].name) = name
                /\ \A j \in (i + 1)..Len(self.locations) :
                      PyStr(self.locations[j].name) # name]
    ELSE None

\* next((c for c in self.locations if c['name'] == name), None)
get_location_by_name(self, name) ==
    IF \E i \in 1..Len(self.locations) : PyStr(self.locations[i].name) = name
    THEN self.locations[
            CHOOSE i \in 1..Len(self.locations) :
                /\ PyStr(self.locations[i].name) = name
                /\ \A j \in 1..(i - 1) : PyStr(self.locations[j].name) # name]
    ELSE None

\* a coverage check that looks at the name before the id
covers_location_name_first(self, location_id, location_name) ==
    IF Truthy(location_name) THEN get_location_by_name(self, location_name)
    ELSE IF Truthy(location_id) THEN get_location_by_id(self, location_id)
    ELSE PyFalse

covers_location(self, location_id, location_name) ==
    IF Truthy(location_id) THEN get_location_by_id(self, location_id)
    ELSE IF Truthy(location_name) THEN get_location_by_name(self, location_name)
    ELSE PyFalse

\* location = self.get_location_by_name(name); return location['id']:
\* subscripting None raises TypeError
get_location_id_by_name(self, name) ==
    LET location == get_location_by_name(self, name)
    IN  IF location = None
        THEN [error |-> "TypeError", value |-> None]
        ELSE [error |-> "none", value |-> PyStr(location.id)]

\* the forecast download_data returns (its content is GroupByHour's)
PyForecast == [t |-> "OrderedDict"]

\* a download that asks the site for whatever id the lookup gave, None too
download_data_unchecked(self, location_id, location_name, online) ==
    LET lid == IF Truthy(location_id) THEN location_id
               ELSE get_location_id_by_name(self, location_name).value
    IN  IF online
        THEN [error |-> "none", requests |-> 1, url_id |-> lid,
              result |-> PyForecast]
        ELSE [error |-> "ConnectionError", requests |-> 1, url_id |-> lid,
              result |-> None]

\* download_data, lines 70-94: the id is resolved, the page requested
\* (online: whether requests.get answers), the values grouped by hour
download_data(self, location_id, location_name, online) ==
    LET lid == IF Truthy(location_id)
               THEN [error |-> "none", value |-> location_id]
               ELSE get_location_id_by_name(self, location_name)
    IN  IF lid.error # "none"
        THEN [error |-> lid.error, requests |-> 0, url_id |-> None,
              result |-> None]
        ELSE IF ~Truthy(lid.value)
        THEN [error |-> "ValueError", requests |-> 0, url_id |-> None,
              result |-> None]
        ELSE IF ~online
        THEN [error |-> "ConnectionError", requests |-> 1, url_id |-> lid.value,
              result |-> None]
        ELSE [error |-> "none", requests |-> 1, url_id |-> lid.value,
              result |-> PyForecast]

\* a catalog refresh that stores the table on the class, for all instances
download_locations_on_class(h, oid, catalog) ==
    [i \in 1..Len(h) |->
        IF h[i].cls = h[oid].cls THEN [h[i] EXCEPT !.locations = catalog]
        ELSE h[i]]

\* download_locations, lines 96-154: self.locations = [] and one append
\* per scraped anchor; catalog is what the site lists
download_locations(h, oid, catalog) ==
    [h EXCEPT ![oid].locations = catalog]

(***************************************************************************)
(* Registry: base.py 1-11 and 40-58                                        *)
(***************************************************************************)
\* a metaclass that registers every class it initialises, the base included
MetaInitAlways(reg, cls, oid) ==
    [has |-> TRUE,
     provider_classes |-> Append(reg.provider_classes, cls),
     providers |-> Append(reg.providers, Ref(oid))]

\* ProviderMetaClass.__init__ for class cls; oid is where cls() is allocated
MetaInit(reg, cls, oid) ==
    IF ~reg.has
    THEN [has |-> TRUE, provider_classes |-> <<>>, providers |-> <<>>]
    ELSE [has |-> TRUE,
          provider_classes |-> Append(reg.provider_classes, cls),
          providers |-> Append(reg.providers, Ref(oid))]

\* indices of ps whose provider has the given id
IdMatches(h, ps, provider_id) ==
    {i \in 1..Len(ps) : PyStr(h[ps[i].oid].id) = provider_id}

\* indices of ps whose provider covers the location name
NameMatches(h, ps, location_name) ==
    {i \in 1..Len(ps) : IsTrue(covers_location(h[ps[i].oid], None, location_name))}

Lowest(S) == CHOOSE i \in S : \A j \in S : i <= j

Highest(S) == CHOOSE i \in S : \A j \in S : i >= j

\* a scan that starts after the first registered provider
find_provider_skip_first(h, ps, provider_id, location_name) ==
    LET ids == IdMatches(h, ps, provider_id) \ {1}
        names == NameMatches(h, ps, location_name) \ {1}
    IN  IF Truthy(provider_id) /\ ids # {} THEN ps[Lowest(ids)]
        ELSE IF Truthy(location_name) /\ names # {} THEN ps[Lowest(names)]
        ELSE None

\* a scan that keeps the last match instead of returning the first
find_provider_last(h, ps, provider_id, location_name) ==
    LET ids == IdMatches(h, ps, provider_id)
        names == NameMatches(h, ps, location_name)
    IN  IF Truthy(provider_id) /\ ids # {} THEN ps[Highest(ids)]
        ELSE IF Truthy(location_name) /\ names # {} THEN ps[Highest(names)]
        ELSE None

\* BaseWeatherProvider.find_provider over the registry ps (objects in h)
find_provider(h, ps, provider_id, location_name) ==
    LET ids == IdMatches(h, ps, provider_id)
        names == NameMatches(h, ps, location_name)
    IN  IF Truthy(provider_id) /\ ids # {} THEN ps[Lowest(ids)]
        ELSE IF Truthy(location_name) /\ names # {} THEN ps[Lowest(names)]
        ELSE None

Registry ==
    [has |-> hasRegistry, provider_classes |-> provider_classes,
     providers |-> providers]

\* the class statement of cls runs: the metaclass initialises it, and
\* constructs obj when it registers an instance
DefineClass(cls, obj) ==
    LET r == MetaInit(Registry, cls, Len(heap) + 1)
    IN  /\ hasRegistry' = r.has
        /\ provider_classes' = r.provider_classes
        /\ providers' = r.providers
        /\ heap' = IF Len(r.providers) > Len(providers)
                   THEN Append(heap, obj) ELSE heap
        /\ defOrder' = Append(defOrder, cls)
        /\ call' = NoCall
        /\ op' = NoOp

\* class BaseWeatherProvider(metaclass=ProviderMetaClass)
DefineBase ==
    /\ runs = <<>>
    /\ defOrder = <<>>
    /\ DefineClass(BaseClass, [cls |-> BaseClass, id |-> "", locations |-> <<>>])
    /\ UNCHANGED <<fvars, cvars>>

\* class SinoptikProvider(BaseWeatherProvider)
DefineSinoptik ==
    /\ runs = <<>>
    /\ defOrder # <<>>
    /\ \A i \in 1..Len(defOrder) : defOrder[i] # SinoptikClass
    /\ Len(heap) < MaxObjects
    /\ DefineClass(SinoptikClass,
                   [cls |-> SinoptikClass, id |-> SinoptikId,
                    locations |-> DefaultLocations])
    /\ UNCHANGED <<fvars, cvars>>

\* a further subclass of BaseWeatherProvider is defined
DefineOther ==
    /\ runs = <<>>
    /\ defOrder # <<>>
    /\ Len(heap) < MaxObjects
    /\ \E c \in OtherClasses, i \in OtherIds, t \in OtherTables :
        /\ \A k \in 1..Len(defOrder) : defOrder[k] # c
        /\ DefineClass(c, [cls |-> c, id |-> i, locations |-> t])
    /\ UNCHANGED <<fvars, cvars>>

\* an explicit SinoptikProvider() outside the class statement: type.__call__
\* runs __init__, no metaclass __init__
NewSinoptik ==
    /\ \E i \in 1..Len(defOrder) : defOrder[i] = SinoptikClass
    /\ Len(heap) < MaxObjects
    /\ heap' = Append(heap, [cls |-> SinoptikClass, id |-> SinoptikId,
                             locations |-> DefaultLocations])
    /\ UNCHANGED <<hasRegistry, provider_classes, providers, defOrder, call, op>>
    /\ UNCHANGED <<fvars, cvars>>

\* BaseWeatherProvider.find_provider(provider_id, location_name)
FindProvider ==
    /\ hasRegistry
    /\ op = NoOp
    /\ \E pid \in ProviderIdArgs, lname \in LocationNameArgs :
        call' = [made |-> TRUE, provider_id |-> pid, location_name |-> lname,
                 result |-> find_provider(heap, providers, pid, lname)]
    /\ op' = NoOp
    /\ UNCHANGED <<hasRegistry, provider_classes, providers, heap, defOrder>>
    /\ UNCHANGED <<fvars, cvars>>

\* the sinoptik provider objects constructed so far
SinoptikObjects == {o \in 1..Len(heap) : heap[o].cls = SinoptikClass}

\* provider.get_location_by_name(name)
GetLocationByName ==
    /\ op = NoOp /\ call = NoCall
    /\ \E o \in SinoptikObjects, n \in LocationNameArgs :
        op' = [name |-> "get_location_by_name", self |-> o,
               location_id |-> None, location_name |-> n,
               result |-> get_location_by_name(heap[o], n),
               error |-> "none", requests |-> 0]
    /\ call' = NoCall
    /\ UNCHANGED <<hasRegistry, provider_classes, providers, heap, defOrder>>
    /\ UNCHANGED <<fvars, cvars>>

\* provider.get_location_by_id(id)
GetLocationById ==
    /\ op = NoOp /\ call = NoCall
    /\ \E o \in SinoptikObjects, i \in LocationIdArgs :
        op' = [name |-> "get_location_by_id", self |-> o,
               location_id |-> i, location_name |-> None,
               result |-> get_location_by_id(heap[o], i),
               error |-> "none", requests |-> 0]
    /\ call' = NoCall
    /\ UNCHANGED <<hasRegistry, provider_classes, providers, heap, defOrder>>
    /\ UNCHANGED <<fvars, cvars>>

\* provider.covers_location(location_id, location_name)
CoversLocation ==
    /\ op = NoOp /\ call = NoCall
    /\ \E o \in SinoptikObjects, i \in LocationIdArgs, n \in LocationNameArgs :
        op' = [name |-> "covers_location", self |-> o,
               location_id |-> i, location_name |-> n,
               result |-> covers_location(heap[o], i, n),
               error |-> "none", requests |-> 0]
    /\ call' = NoCall
    /\ UNCHANGED <<hasRegistry, provider_classes, providers, heap, defOrder>>
    /\ UNCHANGED <<fvars, cvars>>

\* provider.download_data(location_id, location_name), the site up or down
CallDownloadData ==
    /\ op = NoOp /\ call = NoCall
    /\ \E o \in SinoptikObjects, i \in LocationIdArgs, n \in LocationNameArgs,
          online \in BOOLEAN :
        LET r == download_data(heap[o], i, n, online)
        IN  op' = [name |-> "download_data", self |-> o,
                   location_id |-> i, location_name |-> n,
                   result |-> r.result, error |-> r.error,
                   requests |-> r.requests, url_id |-> r.url_id]
    /\ call' = NoCall
    /\ UNCHANGED <<hasRegistry, provider_classes, providers, heap, defOrder>>
    /\ UNCHANGED <<fvars, cvars>>

\* provider.download_locations(): the catalog refresh
DownloadLocations ==
    /\ op = NoOp /\ call = NoCall
    /\ \E o \in SinoptikObjects, c \in Catalogs :
        /\ heap' = download_locations(heap, o, c)
        /\ op' = [name |-> "download_locations", self |-> o,
                  location_id |-> None, location_name |-> None,
                  result |-> None, error |-> "none", requests |-> 1]
    /\ call' = NoCall
    /\ UNCHANGED <<hasRegistry, provider_classes, providers, defOrder>>
    /\ UNCHANGED <<fvars, cvars>>

\* the caller takes the result of the method and goes on
ReturnToCaller ==
    /\ op # NoOp \/ call # NoCall
    /\ op' = NoOp
    /\ call' = NoCall
    /\ UNCHANGED <<hasRegistry, provider_classes, providers, heap, defOrder>>
    /\ UNCHANGED <<fvars, cvars>>

ProviderNext ==
    \/ DefineBase
    \/ DefineSinoptik
    \/ NewSinoptik
    \/ FindProvider
    \/ GetLocationByName
    \/ GetLocationById
    \/ CoversLocation
    \/ CallDownloadData
    \/ DownloadLocations
    \/ ReturnToCaller

SpecProvider == InitRegistry /\ [][ProviderNext]_vars

RegistryNext ==
    \/ DefineBase
    \/ DefineSinoptik
    \/ DefineOther
    \/ NewSinoptik
    \/ FindProvider

SpecRegistry == InitRegistry /\ [][RegistryNext]_vars

(***************************************************************************)
(* Properties of the registry                                              *)
(***************************************************************************)
\* the registered provider at position i
Registered(i) == heap[providers[i].oid]

DistinctIds ==
    \A i, j \in 1..Len(providers) :
        Registered(i).id = Registered(j).id => i = j

HasId(i, x) == PyStr(Registered(i).id) = x

\* C4: in a registry of distinct identifiers, find_provider(provider_id=X)
\* without a location name returns the registered provider whose identifier
\* is X when there is one, and None when there is none.
C4_FindById ==
    (call.made /\ call.location_name = None /\ DistinctIds) =>
        /\ \A i \in 1..Len(providers) :
              HasId(i, call.provider_id) => call.result = providers[i]
        /\ (\A i \in 1..Len(providers) : ~HasId(i, call.provider_id)) =>
              call.result = None

\* a lookup by id alone that finds the provider registered last of three
C4_Witness ==
    /\ call.made /\ call.location_name = None /\ DistinctIds
    /\ Len(providers) = 3
    /\ call.provider_id = PyStr("sinoptik")
    /\ call.result = providers[3]

\* C5: when a provider id is given the result is decided by the id alone:
\* the first registered provider with that id, and None when no registered
\* provider has it, whatever location name is passed along.
C5_IdAloneDecides ==
    (call.made /\ Truthy(call.provider_id)) =>
        /\ \A i \in 1..Len(providers) :
              (HasId(i, call.provider_id)
               /\ \A j \in 1..(i - 1) : ~HasId(j, call.provider_id))
              => call.result = providers[i]
        /\ (\A i \in 1..Len(providers) : ~HasId(i, call.provider_id)) =>
              call.result = None

Covers(i, name) == IsTrue(covers_location(Registered(i), None, name))

\* C6: find_provider(location_name=L) without a provider id returns the
\* first provider in registration order that covers L, None when no
\* registered provider covers L, and None when no argument is given.
C6_FindByName ==
    (call.made /\ call.provider_id = None) =>
        /\ \A i \in 1..Len(providers) :
              (Covers(i, call.location_name)
               /\ \A j \in 1..(i - 1) : ~Covers(j, call.location_name))
              => call.result = providers[i]
        /\ (\A i \in 1..Len(providers) : ~Covers(i, call.location_name)) =>
              call.result = None
        /\ call.location_name = None => call.result = None

\* a lookup by a name that the first and the last of three providers cover
C6_Witness ==
    /\ call.made /\ call.provider_id = None
    /\ call.location_name = PyStr("Sofia")
    /\ Len(providers) = 3
    /\ Covers(1, call.location_name) /\ Covers(3, call.location_name)
    /\ call.result = providers[1]

IsConcrete(c) == c # BaseClass

\* C7: once the provider types are defined, and whatever find_provider
\* calls and explicit instantiations follow, the registry holds exactly one
\* instance per concrete provider type, in definition order, and no
\* instance of the base provider.
C7_OneInstancePerType ==
    hasRegistry =>
        /\ provider_classes = SelectSeq(defOrder, IsConcrete)
        /\ Len(providers) = Len(provider_classes)
        /\ \A i \in 1..Len(providers) :
              /\ providers[i].oid \in 1..Len(heap)
              /\ Registered(i).cls = provider_classes[i]
              /\ Registered(i).cls # BaseClass
        /\ \A i, j \in 1..Len(providers) :
              providers[i] = providers[j] => i = j

\* three provider types defined, then an explicit SinoptikProvider() and a
\* find_provider call
C7_Witness ==
    /\ Len(defOrder) = 4
    /\ Len(providers) = 3
    /\ Len(heap) = 4
    /\ heap[4].cls = SinoptikClass
    /\ call.made

(***************************************************************************)
(* Properties of the provider methods                                      *)
(***************************************************************************)
\* the table of the object the last method call was made on
OpTable == heap[op.self].locations

\* positions of the table whose entry has the given name / the given id
NamedAt(tbl, n) == {i \in 1..Len(tbl) : PyStr(tbl[i].name) = n}

IdAt(tbl, i) == {k \in 1..Len(tbl) : PyStr(tbl[k].id) = i}

\* C12: get_location_by_name returns the entry listed first among those of
\* the given name, also when several entries share the name, and None when
\* no entry has the name.
C12_FirstByName ==
    op.name = "get_location_by_name" =>
        LET at == NamedAt(OpTable, op.location_name)
        IN  /\ at = {} => op.result = None
            /\ \A i \in at :
                  (\A j \in at : i <= j) => op.result = OpTable[i]

\* a lookup of "Byala" in a table that lists two entries of that name with
\* distinct ids answered with the first of them
C12_Witness ==
    /\ op.name = "get_location_by_name"
    /\ op.location_name = PyStr("Byala")
    /\ \E i, j \in NamedAt(OpTable, op.location_name) :
          /\ i < j
          /\ OpTable[i].id # OpTable[j].id
          /\ \A k \in NamedAt(OpTable, op.location_name) : i <= k
          /\ op.result = OpTable[i]
          /\ op.result # OpTable[j]

\* C13 as stated: covers_location is true exactly when an entry has the
\* given id or an entry has the given name, for every combination of the
\* two arguments.
C13_IdOrName ==
    op.name = "covers_location" =>
        (IsTrue(op.result) <=>
            \/ IdAt(OpTable, op.location_id) # {}
            \/ NamedAt(OpTable, op.location_name) # {})

\* C13 amended: a non-empty id decides alone (true exactly when an entry has
\* that id, whatever the name); without an id a non-empty name decides (true
\* exactly when an entry has that name); with neither the result is false.
C13_IdThenName ==
    op.name = "covers_location" =>
        (IsTrue(op.result) <=>
            IF Truthy(op.location_id)
            THEN IdAt(OpTable, op.location_id) # {}
            ELSE /\ Truthy(op.location_name)
                 /\ NamedAt(OpTable, op.location_name) # {})

\* covers_location called with an id the table does not have and a name it
\* does have, answered with None
C13_Witness ==
    /\ op.name = "covers_location"
    /\ Truthy(op.location_id)
    /\ IdAt(OpTable, op.location_id) = {}
    /\ NamedAt(OpTable, op.location_name) # {}
    /\ op.result = None

\* download_data called with a name only, and the name is in no entry
UnknownNameOnly ==
    /\ op.name = "download_data"
    /\ ~Truthy(op.location_id)
    /\ Truthy(op.location_name)
    /\ NamedAt(OpTable, op.location_name) = {}

\* C14: download_data called with only a name the table does not have fails
\* in the lookup (location['id'] on None, a TypeError): no forecast is
\* returned and no request has been made.
C14_UnknownNameFails ==
    UnknownNameOnly =>
        /\ op.error = "TypeError"
        /\ op.result = None
        /\ op.requests = 0

\* download_data(location_name="Plovdiv") on the shipped table, which has
\* no such entry, the site being reachable or not
C14_Witness ==
    /\ UnknownNameOnly
    /\ op.location_name = PyStr("Plovdiv")
    /\ OpTable = DefaultLocations
    /\ op.error # "none"

\* a step that is a call of download_locations
RefreshStep == op = NoOp /\ op'.name = "download_locations"

\* C19: once the classes are defined, no step changes the registry lists;
\* find_provider and the provider's lookups, covers_location and
\* download_data change no provider object, and download_locations changes
\* the table of the object it is called on and of no other object.
C19_RegistryReadOnly ==
    [][defOrder' = defOrder =>
          /\ providers' = providers
          /\ provider_classes' = provider_classes
          /\ \A o \in 1..Len(heap) :
                (~RefreshStep \/ o # op'.self) => heap'[o] = heap[o]]_vars

\* a catalog refresh on a separately constructed instance changed that
\* instance's table while the registered instance keeps the shipped one
C19_Witness ==
    /\ op.name = "download_locations"
    /\ Len(providers) = 1
    /\ Ref(op.self) # providers[1]
    /\ heap[op.self].locations # DefaultLocations
    /\ heap[providers[1].oid].locations = DefaultLocations

(***************************************************************************)
(* Daily cache job: update_cache.py 22-68                                  *)
(***************************************************************************)
\* the module the job imports as sinoptik: its table of locations
SinoptikModule == [cls |-> SinoptikClass, id |-> SinoptikId,
                   locations |-> DefaultLocations]

ThisRun == runs[Len(runs)]

\* the record of the run in progress, with field f set to v
RunWith(f, v) == [runs EXCEPT ![Len(runs)] = [@ EXCEPT ![f] = v]]

\* an existence check that never sees the file
isfile_always_absent(fs, name, d) == FALSE

\* an existence check that takes an unfinished file for a missing one
isfile_complete_only(fs, name, d) == fs[name][d] = "complete"

\* os.path.isfile(filename) for the file of location name on day d
isfile(fs, name, d) == fs[name][d] # "absent"

\* the end of a loop iteration: the next location, or the end of the run
Advance(rs) ==
    IF idx < Len(config)
    THEN /\ idx' = idx + 1
         /\ pc' = "top"
         /\ runs' = rs
    ELSE /\ idx' = idx
         /\ pc' = "idle"
         /\ runs' = [rs EXCEPT ![Len(rs)] = [@ EXCEPT !.status = "ok"]]

\* an exception that is logged and the loop goes on with the next location
AbortAndContinue(rs) ==
    IF idx < Len(config)
    THEN /\ idx' = idx + 1
         /\ pc' = "top"
         /\ runs' = [rs EXCEPT ![Len(rs)] = [@ EXCEPT !.status = "failed"]]
    ELSE /\ idx' = idx
         /\ pc' = "idle"
         /\ runs' = [rs EXCEPT ![Len(rs)] = [@ EXCEPT !.status = "failed"]]

\* an unhandled exception ends the process
Abort(rs) ==
    /\ idx' = idx
    /\ pc' = "idle"
    /\ runs' = [rs EXCEPT ![Len(rs)] = [@ EXCEPT !.status = "failed"]]

\* cron (or an operator) starts update_cache.py; import sinoptik has run
StartRun ==
    /\ pc = "idle"
    /\ Len(runs) < MaxRuns
    /\ \E i \in 1..Len(defOrder) : defOrder[i] = SinoptikClass
    /\ pc' = "top"
    /\ idx' = 1
    /\ runs' = Append(runs, [status |-> "running", days |-> {},
                             fetched |-> <<>>, opened |-> <<>>])
    /\ UNCHANGED <<config, today, now, resolved_id, files, dirs, writes>>
    /\ UNCHANGED <<fvars, rvars>>

\* lines 22-43: read the clock, make the directory, skip if the file exists
LoopTop ==
    /\ pc = "top"
    /\ now' = today
    /\ dirs' = dirs \cup {config[idx]}
    /\ IF isfile(files, config[idx], today)
       THEN Advance(RunWith("days", ThisRun.days \cup {today}))
       ELSE /\ pc' = "resolve"
            /\ idx' = idx
            /\ runs' = RunWith("days", ThisRun.days \cup {today})
    /\ UNCHANGED <<config, today, resolved_id, files, writes>>
    /\ UNCHANGED <<fvars, rvars>>

\* line 46: sinoptik.get_location_id_by_name(location_name); location['id']
\* on None is a TypeError
GetLocationId ==
    /\ pc = "resolve"
    /\ LET location == get_location_by_name(SinoptikModule, PyStr(config[idx]))
       IN  IF location = None
           THEN /\ Abort(runs)
                /\ resolved_id' = resolved_id
           ELSE /\ pc' = "fetch"
                /\ resolved_id' = location.id
                /\ UNCHANGED <<idx, runs>>
    /\ UNCHANGED <<config, today, now, files, dirs, writes>>
    /\ UNCHANGED <<fvars, rvars>>

\* lines 48-63: requests.get answers and the page is parsed and grouped
Fetch ==
    /\ pc = "fetch"
    /\ pc' = "open"
    /\ runs' = RunWith("fetched",
                       Append(ThisRun.fetched,
                              [name |-> config[idx], from |-> SinoptikClass,
                               id |-> resolved_id, pos |-> idx]))
    /\ UNCHANGED <<config, today, idx, now, resolved_id, files, dirs, writes>>
    /\ UNCHANGED <<fvars, rvars>>

\* a failed request that leaves an empty file of the day behind
FetchFailsLeavesFile ==
    /\ pc = "fetch"
    /\ Abort(RunWith("fetched",
                     Append(ThisRun.fetched,
                            [name |-> config[idx], from |-> SinoptikClass,
                             id |-> resolved_id, pos |-> idx])))
    /\ files' = [files EXCEPT ![config[idx]][now] = "partial"]
    /\ UNCHANGED <<config, today, now, resolved_id, dirs, writes>>
    /\ UNCHANGED <<fvars, rvars>>

\* line 51: requests.get raises (no network, upstream down)
FetchFails ==
    /\ pc = "fetch"
    /\ Abort(RunWith("fetched",
                     Append(ThisRun.fetched,
                            [name |-> config[idx], from |-> SinoptikClass,
                             id |-> resolved_id, pos |-> idx])))
    /\ UNCHANGED <<config, today, now, resolved_id, files, dirs, writes>>
    /\ UNCHANGED <<fvars, rvars>>

\* a write to one file per location, whatever the day (the file of day 1)
OpenFileFirstDay ==
    /\ pc = "open"
    /\ pc' = "dump"
    /\ files' = [files EXCEPT ![config[idx]][1] = "partial"]
    /\ writes' = [writes EXCEPT ![config[idx]][1] = @ + 1]
    /\ runs' = RunWith("opened",
                       Append(ThisRun.opened,
                              [name |-> config[idx], day |-> 1, pos |-> idx]))
    /\ UNCHANGED <<config, today, idx, now, resolved_id, dirs>>
    /\ UNCHANGED <<fvars, rvars>>

\* line 66: open(filename, 'w+') creates the file, or truncates it
OpenFile ==
    /\ pc = "open"
    /\ pc' = "dump"
    /\ files' = [files EXCEPT ![config[idx]][now] = "partial"]
    /\ writes' = [writes EXCEPT ![config[idx]][now] = @ + 1]
    /\ runs' = RunWith("opened",
                       Append(ThisRun.opened,
                              [name |-> config[idx], day |-> now, pos |-> idx]))
    /\ UNCHANGED <<config, today, idx, now, resolved_id, dirs>>
    /\ UNCHANGED <<fvars, rvars>>

\* lines 67-68: json.dump writes the whole forecast and the file is closed
Dump ==
    /\ pc = "dump"
    /\ files' = [files EXCEPT ![config[idx]][now] = "complete"]
    /\ Advance(runs)
    /\ UNCHANGED <<config, today, now, resolved_id, dirs, writes>>
    /\ UNCHANGED <<fvars, rvars>>

\* line 67: the process is interrupted, or the write fails, inside json.dump
DumpFails ==
    /\ pc = "dump"
    /\ Abort(runs)
    /\ UNCHANGED <<config, today, now, resolved_id, files, dirs, writes>>
    /\ UNCHANGED <<fvars, rvars>>

\* midnight passes
Midnight ==
    /\ today < MaxDay
    /\ today' = today + 1
    /\ UNCHANGED <<config, pc, idx, now, resolved_id, files, dirs, writes, runs>>
    /\ UNCHANGED <<fvars, rvars>>

CacheNext ==
    \/ DefineBase
    \/ DefineSinoptik
    \/ DefineOther
    \/ StartRun
    \/ LoopTop
    \/ GetLocationId
    \/ Fetch
    \/ FetchFails
    \/ OpenFile
    \/ Dump
    \/ DumpFails
    \/ Midnight

SpecCache == InitCache /\ [][CacheNext]_vars

(***************************************************************************)
(* Properties of the cache job                                             *)
(***************************************************************************)
Configured == {config[i] : i \in 1..Len(config)}

Ended(r) == runs[r].status # "running"

\* runs r and r + 1 both read the clock on day d only
BothOnDay(r, d) == runs[r].days = {d} /\ runs[r + 1].days = {d}

\* after runs r and r + 1 every configured location has had exactly one
\* write to the file of day d, and run r + 1 made no network call
OneWriteNoCall(r, d) ==
    /\ \A n \in Configured : writes[n][d] = 1
    /\ runs[r + 1].fetched = <<>>

FileStep(a, b) ==
    \/ a = b
    \/ a = "absent" /\ b = "partial"
    \/ a = "partial" /\ b = "complete"

\* C2: over any sequence of runs each (location, day) file is written at
\* most once: it only moves absent -> partial -> complete, and once it
\* exists it is never opened again, truncated or removed.
C2_WrittenOnce ==
    [][\A n \in ConfigNames : \A d \in Days :
          /\ FileStep(files[n][d], files'[n][d])
          /\ writes'[n][d] <= 1
          /\ (files[n][d] # "absent" => writes'[n][d] = writes[n][d])]_vars

\* a run that failed part-way on day 1 after writing a file, and a later
\* run that ran to its end on day 2
C2_Witness ==
    /\ Len(runs) = 2
    /\ runs[1].status = "failed" /\ runs[1].opened # <<>> /\ runs[1].days = {1}
    /\ runs[2].status = "ok" /\ runs[2].days = {2}
    /\ \E n \in Configured : files[n][1] = "complete" /\ files[n][2] = "complete"

\* C3: the write is atomic: in every reachable state a cache file is
\* either absent or holds the complete serialized forecast.
C3_AtomicWrite ==
    \A n \in ConfigNames : \A d \in Days : files[n][d] \in {"absent", "complete"}

\* C8: the download of a location is made on the provider the registry
\* resolves for it (by location name: the configuration pins no provider)
\* and on no other.
C8_FetchFromResolved ==
    \A r \in 1..Len(runs) : \A k \in 1..Len(runs[r].fetched) :
        LET f == runs[r].fetched[k]
            p == find_provider(heap, providers, None, PyStr(f.name))
        IN  p # None /\ heap[p.oid].cls = f.from

\* a step in which resolving the location (line 46) or requesting its page
\* (lines 49-52) raises
LookupOrFetchFails == pc \in {"resolve", "fetch"} /\ pc' = "idle"

\* C15: when resolving a location or downloading its data fails, the error
\* ends the run and no file is created for that location and day: the file
\* is absent before and after the failing step, and a run that comes to a
\* location whose file of the day is absent attempts the download.
C15_FailureLeavesUnwritten ==
    [][/\ LookupOrFetchFails =>
            /\ runs'[Len(runs')].status = "failed"
            /\ files' = files
            /\ writes' = writes
            /\ files'[config[idx]][now] = "absent"
       /\ (pc = "top" /\ today' = today
              /\ files[config[idx]][today] = "absent") =>
            (pc' = "resolve" /\ idx' = idx)]_vars

\* a run whose request for its first location failed, and a second run on
\* the same day that requested the same location again
C15_Witness ==
    /\ Len(runs) = 2
    /\ BothOnDay(1, 1)
    /\ runs[1].status = "failed"
    /\ runs[1].opened = <<>>
    /\ Len(runs[1].fetched) = 1
    /\ Len(runs[2].fetched) >= 1
    /\ runs[2].fetched[1].name = runs[1].fetched[1].name
    /\ writes[runs[1].fetched[1].name][1] = 0

\* the positions of the entries of a log are strictly increasing
Ascending(log) ==
    \A k \in 1..(Len(log) - 1) : log[k].pos < log[k + 1].pos

\* when run r requests a location, the file of every location before it in
\* the configuration exists for a day of the run (written, or found there)
EarlierSettled(r, fs) ==
    \A k \in 1..Len(r.fetched) : \A i \in 1..(r.fetched[k].pos - 1) :
        \E d \in r.days : fs[config[i]][d] # "absent"

\* C16: a run takes the locations in configuration order, one at a time,
\* the file of a location being written or found before the next location
\* is requested; an error ends the run, so a failed run requests and writes
\* nothing more, and no file that exists is removed.
C16_SequentialAndAbort ==
    [][/\ \A r \in 1..Len(runs') :
            /\ Ascending(runs'[r].fetched)
            /\ Ascending(runs'[r].opened)
            /\ EarlierSettled(runs'[r], files')
            /\ runs'[r].status = "failed" => (r < Len(runs') \/ pc' = "idle")
       /\ \A r \in 1..Len(runs) :
            runs[r].status = "failed" => runs'[r] = runs[r]
       /\ \A n \in ConfigNames : \A d \in Days :
            files[n][d] # "absent" => files'[n][d] # "absent"]_vars

\* a run that wrote the file of its first location and failed on the second
\* one, the first file still there
C16_Witness ==
    /\ Len(config) = 2
    /\ Len(runs) = 1
    /\ runs[1].status = "failed"
    /\ Len(runs[1].opened) = 1 /\ runs[1].opened[1].pos = 1
    /\ Len(runs[1].fetched) = 2 /\ runs[1].fetched[2].pos = 2
    /\ files[config[1]][runs[1].opened[1].day] = "complete"
    /\ pc = "idle"

\* C17: the existence of the file of the day alone decides: if it exists,
\* complete or not, the location is passed over with no request and no
\* write; if it does not, the lookup and the request follow, whatever files
\* other days have; and a request is only ever under way for a location
\* whose file of the day is absent.
C17_ExistenceDecides ==
    [][/\ (pc = "top" /\ today' = today) =>
            IF files[config[idx]][today] # "absent"
            THEN /\ files' = files
                 /\ writes' = writes
                 /\ runs'[Len(runs')].fetched = runs[Len(runs)].fetched
                 /\ runs'[Len(runs')].opened = runs[Len(runs)].opened
                 /\ \/ pc' = "top" /\ idx' = idx + 1
                    \/ pc' = "idle"
            ELSE pc' = "resolve" /\ idx' = idx
       /\ pc' \in {"resolve", "fetch", "open"} =>
            files'[config[idx']][now'] = "absent"]_vars

\* a run that ended without error on a day for which a location's file was
\* left unfinished by the run before: it made no request for that location
C17_Witness ==
    /\ Len(runs) = 2
    /\ runs[1].status = "failed"
    /\ runs[2].status = "ok" /\ runs[2].days = {1}
    /\ \E n \in Configured :
          /\ files[n][1] = "partial"
          /\ writes[n][1] = 1
          /\ \A k \in 1..Len(runs[2].fetched) : runs[2].fetched[k].name # n

\* C18: a step changes no file other than the file of the location being
\* processed for the date read at the start of its iteration; files of
\* other days and of names that are not configured stay as they are.
C18_OnlyTodaysFile ==
    [][\A n \in ConfigNames : \A d \in Days :
          (files'[n][d] # files[n][d] \/ writes'[n][d] # writes[n][d]) =>
              /\ pc \in {"open", "dump"}
              /\ n = config[idx]
              /\ n \in Configured
              /\ d = now
              /\ d \in runs[Len(runs)].days]_vars

\* a run on day 2 that wrote the day's file of a location whose file of
\* day 1 was never written, the names not configured having no file
C18_Witness ==
    /\ today = 2
    /\ \E n \in Configured :
          /\ files[n][2] = "complete"
          /\ files[n][1] = "absent"
    /\ \A m \in ConfigNames \ Configured : \A d \in Days :
          files[m][d] = "absent"

====
